---- MODULE Spec2Model ----
(***************************************************************************)
(* Model of dreamhost_backup.py: the path deriver (clean_filename), the    *)
(* transfer unit (download_file) and the batch coordinator (main) running  *)
(* its transfer tasks on one asyncio event loop under Semaphore(3).        *)
(*                                                                         *)
(* A step of the model is one run of a coroutine between two suspension    *)
(* points of the event loop (the code between two awaits that really       *)
(* suspend), so the interleavings of the model are those of the loop.      *)
(*                                                                         *)
(* Text is a sequence of one-character strings.  The scheme "h" stands     *)
(* for "http".  A byte of a response body is a natural number.             *)
(***************************************************************************)
EXTENDS Integers, Sequences, FiniteSets, TLC

(***************************************************************************)
(* Bounds of the model.                                                    *)
(***************************************************************************)
\* longest list of links get_download_links hands to main
MaxLinks == 4
\* most chunks a response body is delivered in before end-of-stream
MaxChunks == 2

(***************************************************************************)
(* Text helpers.                                                           *)
(***************************************************************************)
\* str.find(c, from): first index >= from holding c, 0 when there is none
Find(s, c, from) ==
    LET hits == {i \in from..Len(s) : s[i] = c}
    IN  IF hits = {} THEN 0 ELSE CHOOSE i \in hits : \A j \in hits : i <= j

\* str.rfind(c): last index holding c, 0 when there is none
RFind(s, c) ==
    LET hits == {i \in 1..Len(s) : s[i] = c}
    IN  IF hits = {} THEN 0 ELSE CHOOSE i \in hits : \A j \in hits : j <= i

Has(s, c) == Find(s, c, 1) # 0

\* s[from:] and s[:upto] of Python, on 1-based positions
From(s, from) == SubSeq(s, from, Len(s))
Upto(s, upto) == SubSeq(s, 1, upto)

\* the letters of the model's alphabet (none of them a hex digit) and its
\* digits (the hex digits of its percent escapes)
Letters == {"h", "x", "g", "u", "v", "w", "q"}
Digits == {"0", "4"}
\* urllib.parse.scheme_chars: letters, digits and "+-."
SchemeChars == Letters \cup Digits \cup {"+", "-", "."}
\* urllib.parse.uses_params holds "" (no scheme) and "http", but not every
\* scheme (not "git", say, for which "g" stands)
UsesParams == {<<>>, <<"h">>}

(***************************************************************************)
(* urlparse(url), as far as clean_filename reads it, stage by stage as     *)
(* urllib.parse.urlsplit and urlparse take the text apart.                 *)
(***************************************************************************)
\* the scheme is the text before the first ":", when it starts with a letter
\* and holds only scheme characters
HasScheme(url) ==
    /\ Find(url, ":", 1) > 1
    /\ url[1] \in Letters
    /\ \A i \in 1..(Find(url, ":", 1) - 1) : url[i] \in SchemeChars

SchemeOf(url) == IF HasScheme(url) THEN Upto(url, Find(url, ":", 1) - 1) ELSE <<>>
AfterScheme(url) == IF HasScheme(url) THEN From(url, Find(url, ":", 1) + 1) ELSE url

\* a netloc follows when the rest starts with "//"
HasNetloc(rest) == Len(rest) >= 2 /\ rest[1] = "/" /\ rest[2] = "/"

\* _splitnetloc: the netloc ends at the first of "/?#" after the "//"
NetlocEnd(rest) ==
    LET delims == {i \in 3..Len(rest) : rest[i] \in {"/", "?", "#"}}
    IN  IF delims = {} THEN Len(rest) + 1
        ELSE CHOOSE i \in delims : \A j \in delims : i <= j

NetlocOf(rest) == IF HasNetloc(rest) THEN SubSeq(rest, 3, NetlocEnd(rest) - 1) ELSE <<>>
AfterNetloc(rest) == IF HasNetloc(rest) THEN From(rest, NetlocEnd(rest)) ELSE rest

\* urlsplit raises ValueError("Invalid IPv6 URL") on an unmatched bracket
\* (what it makes of a matched pair depends on the Python version and is left
\* out: no link of the model has one)
BadBrackets(netloc) ==
    \/ Has(netloc, "[") /\ ~Has(netloc, "]")
    \/ Has(netloc, "]") /\ ~Has(netloc, "[")

\* url.split(c, 1)[0]: the text before the first c
Before(s, c) == IF Has(s, c) THEN Upto(s, Find(s, c, 1) - 1) ELSE s

\* _splitparams: a ";" in the last segment of the path starts the params
SplitParams(s) ==
    LET semi == Find(s, ";", IF RFind(s, "/") = 0 THEN 1 ELSE RFind(s, "/"))
    IN  IF semi = 0 THEN s ELSE Upto(s, semi - 1)

\* the record [ok, path]; ok = FALSE is the ValueError
urlparse(url) ==
    LET afterNetloc == AfterNetloc(AfterScheme(url))
        noQuery == Before(Before(afterNetloc, "#"), "?")
    IN  [ok |-> ~BadBrackets(NetlocOf(AfterScheme(url))),
         path |-> IF SchemeOf(url) \in UsesParams /\ Has(noQuery, ";")
                  THEN SplitParams(noQuery) ELSE noQuery]

\* the characters the percent escapes of the model's alphabet decode to
HexPair(a, b) ==
    CASE a = "4" /\ b = "0" -> "@"
      [] a = "4" /\ b = "4" -> "D"
      [] a = "0" /\ b = "4" -> "EOT"
      [] OTHER -> "NUL"

\* urllib.parse.unquote: every %XY with hex digits X, Y becomes one character,
\* any other "%" stays as it is
RECURSIVE unquote(_)
unquote(s) ==
    IF s = <<>> THEN <<>>
    ELSE IF s[1] = "%" /\ Len(s) >= 3 /\ s[2] \in Digits /\ s[3] \in Digits
         THEN <<HexPair(s[2], s[3])>> \o unquote(From(s, 4))
         ELSE <<s[1]>> \o unquote(Tail(s))

\* the path[1:] of clean_filename when the path starts with "/"
StripLeadingSlash(path) ==
    IF path # <<>> /\ path[1] = "/" THEN Tail(path) ELSE path

\* clean_filename(url): [ok, path]; ok = FALSE when urlparse raises
clean_filename(url) ==
    LET parsed == urlparse(url)
    IN  [ok |-> parsed.ok, path |-> StripLeadingSlash(unquote(parsed.path))]

(***************************************************************************)
(* The inputs: the links of the saved page and the server's answers.       *)
(***************************************************************************)
\* h://x/u, and h://x/u?q, which derives the same filename
UrlPlain == <<"h", ":", "/", "/", "x", "/", "u">>
UrlQuery == <<"h", ":", "/", "/", "x", "/", "u", "?", "q">>
\* h://x/g/v: a file in a directory
UrlNested == <<"h", ":", "/", "/", "x", "/", "g", "/", "v">>
UrlOther == <<"h", ":", "/", "/", "x", "/", "w">>
\* h://[x/u: urlparse raises ValueError, "[" without "]" in the netloc
UrlBad == <<"h", ":", "/", "/", "[", "x", "/", "u">>

Catalog == <<UrlPlain, UrlQuery, UrlNested, UrlOther>>

\* what follows the URLs is drawn on for the properties of clean_filename
\* alone: URLs put together from a scheme, a host, a path, a query and a
\* fragment, any of the four but the path possibly absent (None)
\* longest path of such a URL
MaxPath == 3
PathChars == {"/", "4", ";", "%"}
Paths == UNION {[1..k -> PathChars] : k \in 0..MaxPath}
Schemes == {<<"None">>, <<"h">>, <<"g">>}
Hosts == {<<"None">>, <<"x">>, <<"[", "x">>}
Queries == {<<"None">>, <<"/", ";">>}
Fragments == {<<"None">>, <<"?", "q">>}
Parts == [scheme : Schemes, host : Hosts, path : Paths, query : Queries,
          fragment : Fragments]

\* the text of a URL with the parts c (RFC 3986, section 5.3)
Compose(c) ==
    (IF c.scheme = <<"None">> THEN <<>> ELSE c.scheme \o <<":">>)
    \o (IF c.host = <<"None">> THEN <<>> ELSE <<"/", "/">> \o c.host)
    \o c.path
    \o (IF c.query = <<"None">> THEN <<>> ELSE <<"?">> \o c.query)
    \o (IF c.fragment = <<"None">> THEN <<>> ELSE <<"#">> \o c.fragment)

\* RFC 3986, section 3.3: after a host the path is empty or starts with "/",
\* and without a host it does not start with "//"
WellFormed(c) ==
    IF c.host = <<"None">>
    THEN ~(Len(c.path) >= 2 /\ c.path[1] = "/" /\ c.path[2] = "/")
    ELSE c.path = <<>> \/ c.path[1] = "/"

\* the well-formed URLs with the path of c that differ from c in at most one
\* of scheme, host, query and fragment
Variants(c) ==
    {d \in [scheme : Schemes, host : Hosts, path : {c.path}, query : Queries,
            fragment : Fragments] :
        /\ WellFormed(d)
        /\ Cardinality({k \in {"scheme", "host", "query", "fragment"} :
                            c[k] # d[k]}) <= 1}

\* the pairs of URLs clean_filename is applied to
UrlPairs ==
    UNION {{<<Compose(c), Compose(d)>> : d \in Variants(c)} :
                c \in {e \in Parts : WellFormed(e)}}

\* the first m links of the catalog, repeated when m is larger than it
ValidLinks(m) == [i \in 1..m |-> Catalog[((i - 1) % Len(Catalog)) + 1]]
\* the same list with an unparsable link in the last place
BadLinks(m) == [i \in 1..m |-> IF i = m THEN UrlBad ELSE ValidLinks(m)[i]]

\* the lists of backup links a saved page may hold
Batches == {ValidLinks(m) : m \in 0..MaxLinks} \cup {BadLinks(m) : m \in 1..MaxLinks}

\* what clean_filename makes of each link of these lists, worked out once
derived == [url \in UNION {{b[i] : i \in DOMAIN b} : b \in Batches} |-> clean_filename(url)]

\* h://x/q: a link of the page that is no backup
UrlSkipped == <<"h", ":", "/", "/", "x", "/", "q">>

\* the file named on the command line: whether it exists, whether open and
\* read succeed, the parser that makes a soup of its contents ("none" when
\* lxml and html.parser both raise) and the href of each of its anchors
GoodPages ==
    {[exists |-> TRUE, readable |-> TRUE, parser |-> q, hrefs |-> <<UrlSkipped>> \o b] :
        q \in {"lxml", "html.parser"}, b \in Batches}
FailingPages ==
    {[exists |-> FALSE, readable |-> FALSE, parser |-> "none", hrefs |-> <<>>],
     [exists |-> TRUE, readable |-> FALSE, parser |-> "none", hrefs |-> <<>>],
     [exists |-> TRUE, readable |-> TRUE, parser |-> "none",
      hrefs |-> <<UrlSkipped, UrlPlain>>]}
Pages == GoodPages \cup FailingPages

\* ".tar.gz" in href or ".sql.gz" in href: the names u, v and w stand for
\* names that hold one of the two, wherever in the href they are
IsBackupLink(href) == \E i \in 1..Len(href) : href[i] \in {"u", "v", "w"}

\* what became of the page: the value of the variable contents, below
PageKind(p) ==
    IF ~p.exists THEN "missing"
    ELSE IF ~p.readable THEN "error"
    ELSE IF p.parser = "none" THEN "unparsable"
    ELSE "parsed"

\* a get_download_links that handles the missing file only
ReadFailsIfMissing(p) == ~p.exists

\* get_download_links gives up: the file is missing (line 15), or open, read
\* or both parsers raise and "except Exception" (line 32) catches it
ReadFails(p) == ~p.exists \/ ~p.readable \/ p.parser = "none"

\* lines 12-34
get_download_links(p) ==
    IF ReadFails(p) THEN <<>> ELSE SelectSeq(p.hrefs, IsBackupLink)

\* response.status values a server answers with
Statuses == {200, 204, 404}

\* the number of chunks the server sends for link t before end-of-stream:
\* one, two, ... up to MaxChunks, then none, then one again
BodyChunks(t) == t % (MaxChunks + 1)

\* the k-th chunk response.content.read hands to task t: k bytes that name
\* the task and the chunk, so that a file shows who wrote which byte
Chunk(t, k) == [i \in 1..k |-> 10 * t + k]

RECURSIVE Body(_, _)
\* the concatenation of the first n chunks of task t
Body(t, n) == IF n = 0 THEN <<>> ELSE Body(t, n - 1) \o Chunk(t, n)

\* what a task returns in place of a filename: Python's None
None == <<"None">>

(***************************************************************************)
(* The filesystem under the working directory: dirs is the set of existing *)
(* directories (<<>> is the working directory itself), files maps each      *)
(* existing regular file to its bytes.                                     *)
(***************************************************************************)
\* os.path.dirname(os.path.abspath(p)) of a relative path without "." or
\* ".." segments, relative to the working directory
Dirname(p) == IF RFind(p, "/") = 0 THEN <<>> ELSE Upto(p, RFind(p, "/") - 1)

\* the directory d and every directory above it, below the working directory
Ancestors(d) ==
    {d} \cup {Upto(d, i - 1) : i \in {j \in 1..Len(d) : d[j] = "/"}} \cup {<<>>}

\* a file before the run: longer than any body of the model
OldContent == [i \in 1..(1 + Len(Body(1, MaxChunks))) |-> 9]
InitFiles == [p \in {clean_filename(UrlPlain).path} |-> OldContent]
InitDirs == {<<>>}

\* os.makedirs(dir, exist_ok=True) raises when a component is a regular file
MakedirsFails(fs, d) == \E a \in Ancestors(d) : a \in DOMAIN fs

\* open(p, "wb") raises on the empty name and on a directory
OpenFails(ds, p) == p = <<>> \/ p \in ds \/ p[Len(p)] = "/"

\* open(p, "wb"): the file exists afterwards and is empty
OpenTruncate(fs, p) ==
    [q \in DOMAIN fs \cup {p} |-> IF q = p THEN <<>> ELSE fs[q]]

\* f.write(chunk) at the writer's own position off: bytes between the end of
\* the file and off read as 0
WriteAt(content, off, chunk) ==
    LET n == IF Len(content) > off + Len(chunk) THEN Len(content)
             ELSE off + Len(chunk)
    IN  [i \in 1..n |-> IF i > off /\ i <= off + Len(chunk) THEN chunk[i - off]
                        ELSE IF i <= Len(content) THEN content[i] ELSE 0]

(***************************************************************************)
(* State.                                                                  *)
(***************************************************************************)
VARIABLES
    argc,            \* len(args) of main
    contents,        \* what get_download_links made of the file: "unread"
                     \* before it is called, then the PageKind of the page
    mainpc,          \* where main is
    download_links,  \* the list get_download_links returned
    session,         \* the aiohttp.ClientSession: "none", "open", "closed"
    permits,         \* semaphore._value
    pc,              \* pc[t]: where task t (sem_download of link t) is, or its outcome
    local_filename,  \* local_filename[t]: the name task t derived, None before
    status,          \* status[t]: the response.status task t acted on, 0 when
                     \* it has none or lost it to an exception
    nread,           \* nread[t]: chunks task t has written to its open file
    ondisk,          \* ondisk[t]: how many of them have left the file's buffer
    requests,        \* number of session.get calls issued
    dirs, files,     \* the filesystem
    summary,         \* the summaries printed, in order
    previous         \* what the earlier runs of the program on the same
                     \* page ended with (links, results and files), in order

vars == <<argc, contents, mainpc, download_links, session, permits, pc, local_filename,
          status, nread, ondisk, requests, dirs, files, summary, previous>>

\* the capacity of asyncio.Semaphore(3)
N == 3

Tasks == DOMAIN pc

\* the outcomes of a task: the three ways download_file returns, an exception
\* leaving sem_download, and cancellation by asyncio.run
Returned == {"Success", "HttpStatus", "IoError"}
Outcomes == Returned \cup {"raised", "cancelled"}
\* inside session.get, or inside response.content.read with the file open, on
\* a network call that will never return
Hung == {"hung_get", "hung_read"}
\* entered download_file and has not produced its outcome
InFlight == {"requesting", "streaming"} \cup Hung

\* open(name, "wb") gives a buffered writer: f.write hands the chunk to the
\* buffer, and the buffer reaches the file, at the position where the last
\* flush ended, when it fills up or when the file is closed.  FlushTo(fs, t, k)
\* is the filesystem after the chunks of task t up to the k-th have reached it
FlushTo(fs, t, k) ==
    IF k = ondisk[t] THEN fs
    ELSE [fs EXCEPT ![local_filename[t]] =
            WriteAt(@, Len(Body(t, ondisk[t])),
                    SubSeq(Body(t, k), Len(Body(t, ondisk[t])) + 1, Len(Body(t, k))))]

\* leaving "with open(...) as f" closes the file, which flushes the buffer
Closed(fs, t) ==
    IF pc[t] \in {"streaming", "hung_read"} THEN FlushTo(fs, t, nread[t]) ELSE fs

Init ==
    /\ argc \in {1, 2, 3}
    /\ contents = "unread"
    /\ mainpc = "start"
    /\ download_links = <<>>
    /\ session = "none"
    /\ permits = N
    /\ pc = <<>>
    /\ local_filename = <<>>
    /\ status = <<>>
    /\ nread = <<>>
    /\ ondisk = <<>>
    /\ requests = 0
    /\ dirs = InitDirs
    /\ files = InitFiles
    /\ summary = <<>>
    /\ previous = <<>>

(***************************************************************************)
(* The decisions of the code, one operator each.                           *)
(***************************************************************************)
\* a usage check that lets extra arguments through
UsageErrorIfTooFew(n) == n < 2

\* main: len(args) != 2
UsageError(n) == n # 2

\* a main that goes on to open the session whatever the list holds
NoLinksNever(links) == FALSE

\* main: not download_links
NoLinks(links) == links = <<>>

\* an acquire that never waits
CanAcquireAlways(p) == TRUE

\* asyncio.Semaphore.acquire goes on only while the value is positive
CanAcquire(p) == p > 0

\* a release that only the success path reaches
ReleaseOnSuccessOnly(p, kind) == IF kind = "Success" THEN p + 1 ELSE p

\* a semaphore that gets no permit back
ReleaseNever(p, kind) == p

\* leaving "async with semaphore" with outcome kind: release(), on every path
ReleaseOn(p, kind) == p + 1

\* a status test that lets every client error through
IsServerError(s) == s >= 500

\* a status test that accepts the whole 2xx range
NotInSuccessRange(s) == s \notin 200..299

\* download_file: response.status != 200
IsFailureStatus(s) == s # 200

\* a download_file without its except clause: the error leaves it
ExceptionEscapes == "raised"

\* an except clause that returns the filename all the same
ExceptionReturnsName == "Success"

\* download_file: "except Exception" turns an error of the request, of the
\* directory creation, of open or of the streaming into a returned None
ExceptionOutcome == "IoError"

\* what sem_download returns to gather for an outcome kind and a filename
ResultOf(kind, name) == IF kind = "Success" THEN name ELSE None

\* a gather that returns as soon as one task has returned
AnyCollected(p) == \E t \in DOMAIN p : p[t] \in Returned

\* tqdm.gather hands its results to main when every task has returned
AllCollected(p) == \A t \in DOMAIN p : p[t] \in Returned

\* a count of every result, None included
DownloadedUnfiltered(results) == results

\* main: [r for r in results if r]; None and the empty string are falsy
Downloaded(results) == SelectSeq(results, LAMBDA r : r # None /\ r # <<>>)

results == [t \in Tasks |-> ResultOf(pc[t], local_filename[t])]

(***************************************************************************)
(* main.                                                                   *)
(***************************************************************************)
\* lines 80-83: a wrong argument count raises SystemExit(1)
MainCheckArgs ==
    /\ mainpc = "start"
    /\ mainpc' = IF UsageError(argc) THEN "exit1" ELSE "args_ok"
    /\ UNCHANGED <<previous, argc, contents, download_links, session, permits, pc, local_filename,
                   status, nread, ondisk, requests, dirs, files, summary>>

\* lines 85-102: the links are read from the page; with none main returns, otherwise the
\* session and the semaphore are made and gather schedules one task a link
MainGetLinks ==
    /\ mainpc = "args_ok"
    /\ \E page \in Pages :
        LET links == get_download_links(page)
        IN
        /\ contents' = PageKind(page)
        /\ download_links' = links
        /\ IF NoLinks(links)
           THEN /\ mainpc' = "done"
                /\ UNCHANGED <<session, pc, local_filename, status, nread, ondisk>>
           ELSE /\ mainpc' = "gathering"
                /\ session' = "open"
                /\ pc' = [t \in 1..Len(links) |-> "waiting"]
                /\ local_filename' = [t \in 1..Len(links) |-> None]
                /\ status' = [t \in 1..Len(links) |-> 0]
                /\ nread' = [t \in 1..Len(links) |-> 0]
                /\ ondisk' = [t \in 1..Len(links) |-> 0]
    /\ UNCHANGED <<previous, argc, permits, requests, dirs, files, summary>>

\* lines 102-105: gather returns, the session is closed, the summary is printed
MainSummary ==
    /\ mainpc = "gathering"
    /\ AllCollected(pc)
    /\ session' = "closed"
    /\ summary' = Append(summary, [downloaded |-> Len(Downloaded(results)),
                                   total |-> Len(download_links)])
    /\ mainpc' = "done"
    /\ UNCHANGED <<previous, argc, contents, download_links, permits, pc, local_filename, status,
                   nread, ondisk, requests, dirs, files>>

\* line 102: awaiting a task that raised raises in main; leaving
\* "async with ClientSession" closes the session on the way out
MainGatherRaises ==
    /\ mainpc = "gathering"
    /\ \E t \in Tasks : pc[t] = "raised"
    /\ session' = "closed"
    /\ mainpc' = "closing"
    /\ UNCHANGED <<previous, argc, contents, download_links, permits, pc, local_filename, status,
                   nread, ondisk, requests, dirs, files, summary>>

\* the exception leaves main: asyncio.run (line 110) goes on to cancel the tasks
MainRaises ==
    /\ mainpc = "closing"
    /\ mainpc' = "raised"
    /\ UNCHANGED <<previous, argc, contents, download_links, session, permits, pc, local_filename,
                   status, nread, ondisk, requests, dirs, files, summary>>

(***************************************************************************)
(* sem_download(link t) and the download_file it calls.                    *)
(***************************************************************************)
\* what no step of a task changes
mainVars == <<argc, contents, mainpc, download_links, session, summary, previous>>

\* the event loop runs the tasks from gather until main has left
Running == mainpc \in {"gathering", "closing"}

\* task t ends with outcome kind, having acted on status s: its file, if
\* open, has been closed (its position is forgotten) and its permit is given
\* back
Finish(t, kind, s) ==
    /\ pc' = [pc EXCEPT ![t] = kind]
    /\ status' = [status EXCEPT ![t] = s]
    /\ nread' = [nread EXCEPT ![t] = 0]
    /\ ondisk' = [ondisk EXCEPT ![t] = 0]
    /\ permits' = ReleaseOn(permits, kind)

\* lines 95-49: the permit is taken, the filename is derived and the GET is
\* issued.  clean_filename is called outside the try, so its ValueError leaves
\* download_file; a closed session makes session.get raise inside the try
TaskStart(t) ==
    /\ Running
    /\ pc[t] = "waiting"
    /\ CanAcquire(permits)
    /\ IF ~derived[download_links[t]].ok
       THEN /\ pc' = [pc EXCEPT ![t] = "raised"]
            /\ permits' = ReleaseOn(permits - 1, "raised")
            /\ UNCHANGED <<local_filename, requests>>
       ELSE /\ local_filename' =
                [local_filename EXCEPT ![t] = derived[download_links[t]].path]
            /\ IF session # "open"
               THEN /\ pc' = [pc EXCEPT ![t] = ExceptionOutcome]
                    /\ permits' = ReleaseOn(permits - 1, ExceptionOutcome)
                    /\ UNCHANGED requests
               ELSE /\ pc' = [pc EXCEPT ![t] = "requesting"]
                    /\ permits' = permits - 1
                    /\ requests' = requests + 1
    /\ UNCHANGED <<mainVars, status, nread, ondisk, dirs, files>>

\* lines 49-57: the request fails (connection error, timeout), or the
\* content-length is no number, or os.makedirs is refused: nothing is written
TaskRequestError(t) ==
    /\ Running
    /\ pc[t] = "requesting"
    /\ Finish(t, ExceptionOutcome, 0)
    /\ UNCHANGED <<mainVars, local_filename, requests, dirs, files>>

\* lines 49-59: the response arrives.  A failure status returns None at once;
\* otherwise the parent directories are made and the file is opened for
\* writing, either of which may raise (denied: the system refuses the open)
TaskAnswer(t, s, denied) ==
    /\ Running
    /\ pc[t] = "requesting"
    /\ LET name == local_filename[t]
            made == dirs \cup Ancestors(Dirname(name))
        IN  IF IsFailureStatus(s)
            THEN /\ ~denied
                 /\ Finish(t, "HttpStatus", s)
                 /\ UNCHANGED <<dirs, files>>
            ELSE IF MakedirsFails(files, Dirname(name))
            THEN /\ ~denied
                 /\ Finish(t, ExceptionOutcome, 0)
                 /\ UNCHANGED <<dirs, files>>
            ELSE IF denied \/ OpenFails(made, name)
            THEN /\ Finish(t, ExceptionOutcome, 0)
                 /\ dirs' = made
                 /\ UNCHANGED files
            ELSE /\ pc' = [pc EXCEPT ![t] = "streaming"]
                 /\ status' = [status EXCEPT ![t] = s]
                 /\ dirs' = made
                 /\ files' = OpenTruncate(files, name)
                 /\ UNCHANGED <<permits, nread, ondisk>>
    /\ UNCHANGED <<mainVars, local_filename, requests>>

\* the answers of the model's server and system
TaskResponse(t) == \E s \in Statuses, denied \in BOOLEAN : TaskAnswer(t, s, denied)

\* lines 68-72: a non-empty chunk arrives and is written to the file object;
\* the buffer may keep it, or flush what it held, or flush it as well
TaskChunk(t) ==
    /\ Running
    /\ pc[t] = "streaming"
    /\ nread[t] < BodyChunks(t)
    /\ nread' = [nread EXCEPT ![t] = @ + 1]
    /\ \E k \in ondisk[t]..(nread[t] + 1) :
        /\ files' = FlushTo(files, t, k)
        /\ ondisk' = [ondisk EXCEPT ![t] = k]
    /\ UNCHANGED <<mainVars, permits, pc, local_filename, status, requests, dirs>>

\* lines 68-71: the read or the write raises; the file is closed as it is
TaskStreamError(t) ==
    /\ Running
    /\ pc[t] = "streaming"
    /\ Finish(t, ExceptionOutcome, 0)
    /\ files' = Closed(files, t)
    /\ UNCHANGED <<mainVars, local_filename, requests, dirs>>

\* lines 69-73: the read returns b"": the file is closed, the name is returned
TaskEof(t) ==
    /\ Running
    /\ pc[t] = "streaming"
    /\ nread[t] = BodyChunks(t)
    /\ Finish(t, "Success", status[t])
    /\ files' = Closed(files, t)
    /\ UNCHANGED <<mainVars, local_filename, requests, dirs>>

\* line 110: asyncio.run cancels every task still pending once main has raised;
\* CancelledError is no Exception, so it leaves download_file, and a task that
\* holds a permit gives it back
TaskCancelled(t) ==
    /\ mainpc = "raised"
    /\ pc[t] \in InFlight \cup {"waiting"}
    /\ pc' = [pc EXCEPT ![t] = "cancelled"]
    /\ status' = [status EXCEPT ![t] = 0]
    /\ nread' = [nread EXCEPT ![t] = 0]
    /\ ondisk' = [ondisk EXCEPT ![t] = 0]
    /\ files' = Closed(files, t)
    /\ permits' = IF pc[t] \in InFlight THEN ReleaseOn(permits, "cancelled")
                  ELSE permits
    /\ UNCHANGED <<mainVars, local_filename, requests, dirs>>

Next ==
    \/ MainCheckArgs
    \/ MainGetLinks
    \/ MainSummary
    \/ MainGatherRaises
    \/ MainRaises
    \/ \E t \in Tasks : TaskStart(t)
    \/ \E t \in Tasks : TaskRequestError(t)
    \/ \E t \in Tasks : TaskResponse(t)
    \/ \E t \in Tasks : TaskChunk(t)
    \/ \E t \in Tasks : TaskStreamError(t)
    \/ \E t \in Tasks : TaskEof(t)
    \/ \E t \in Tasks : TaskCancelled(t)

Spec == Init /\ [][Next]_vars

(***************************************************************************)
(* Properties.                                                             *)
(***************************************************************************)
\* the transfer units that have entered download_file and have no outcome yet
Active == {t \in Tasks : pc[t] \in InFlight}
Waiting == {t \in Tasks : pc[t] = "waiting"}
Failed == {t \in Tasks : pc[t] \in {"HttpStatus", "IoError"}}
Succeeded == {t \in Tasks : pc[t] = "Success"}
Unparsable == {t \in 1..Len(download_links) : ~clean_filename(download_links[t]).ok}

\* C1: in every reachable state at most N transfer units are active, whatever
\* the size of the batch
ConcurrencyBounded == Cardinality(Active) <= N

\* C1 witness: a batch larger than N with N units active and one kept waiting
ConcurrencyBoundedWitness ==
    /\ Len(download_links) > N
    /\ Cardinality(Active) = N
    /\ Waiting # {}

\* C2: every permit taken is given back on every path: the free permits are
\* always N less the active units, so they are N again once every unit has
\* finished, and a unit that failed never keeps a waiting unit from acquiring
PermitsGivenBack ==
    /\ permits = N - Cardinality(Active)
    /\ (\A t \in Tasks : pc[t] \in Outcomes) => permits = N
    /\ (Waiting # {} /\ Cardinality(Active) < N) => CanAcquire(permits)

\* C2 witness: a batch larger than N has finished with a status failure, an
\* error and a success among its units, and all N permits are free
PermitsGivenBackWitness ==
    /\ Len(download_links) > N
    /\ \A t \in Tasks : pc[t] \in Returned
    /\ \E t \in Tasks : pc[t] = "HttpStatus"
    /\ \E t \in Tasks : pc[t] = "IoError"
    /\ \E t \in Tasks : pc[t] = "Success"
    /\ permits = N

\* C3: the summary is printed at most once, and never while a unit is still
\* waiting for a permit or in flight
SummaryAfterAllOutcomes ==
    /\ Len(summary) <= 1
    /\ summary # <<>> => Waiting = {} /\ Active = {}

\* C3 witness: the summary of a batch larger than N in which a unit failed
SummaryAfterAllOutcomesWitness ==
    /\ Len(download_links) > N
    /\ summary # <<>>
    /\ Failed # {}
    /\ Succeeded # {}

\* C4: the summary counts every link once: its total is the number of links,
\* its successes are the units that returned a filename, and the rest, total
\* less successes, are exactly the units that returned None
TallyPartitionsBatch ==
    summary # <<>> =>
        /\ summary[1].total = Len(download_links)
        /\ Tasks = 1..Len(download_links)
        /\ \A t \in Tasks : pc[t] \in Returned
        /\ summary[1].downloaded = Cardinality(Succeeded)
        /\ summary[1].total - summary[1].downloaded = Cardinality(Failed)

\* C4 witness: two links, the first downloaded, the second answered 404:
\* the summary says 1 out of 2
TallyPartitionsBatchWitness ==
    /\ Len(download_links) = 2
    /\ summary = <<[downloaded |-> 1, total |-> 2]>>
    /\ pc[1] = "Success"
    /\ pc[2] = "HttpStatus" /\ status[2] = 404

\* C5: a Failure never aborts the batch: main leaves gather by an exception,
\* and tasks are cancelled, only when some link cannot be parsed; whenever
\* main has finished a batch of parsable links every unit has its own outcome
\* and the summary holds the failures
NoAbortOnFailure ==
    /\ (mainpc \in {"closing", "raised"} \/ \E t \in Tasks : pc[t] = "cancelled")
            => Unparsable # {}
    /\ (mainpc = "done" /\ download_links # <<>>) =>
            /\ \A t \in Tasks : pc[t] \in Returned
            /\ Len(summary) = 1
            /\ summary[1].total - summary[1].downloaded = Cardinality(Failed)

\* C5 witness: the first unit failed on an error, the second on its status,
\* and a later unit still succeeded and is in the summary
NoAbortOnFailureWitness ==
    /\ mainpc = "done"
    /\ Len(download_links) >= 3
    /\ pc[1] = "IoError"
    /\ pc[2] = "HttpStatus"
    /\ pc[3] = "Success"
    /\ summary[1].downloaded >= 1

\* C6: a link that cannot be parsed is a failure of its own unit only: no
\* exception leaves a task, main does not abort, no unit is cancelled, and
\* main ends with the summary printed
UnparsableLinkIsPerItem ==
    Unparsable # {} =>
        /\ \A t \in Tasks : pc[t] \notin {"raised", "cancelled"}
        /\ mainpc \notin {"closing", "raised"}
        /\ mainpc = "done" => Len(summary) = 1

\* C7: with no links main is done at once: no session is opened, no task is
\* made, no permit is taken, no request is issued, no file or directory is
\* written and nothing is counted
EmptyBatchIsInert ==
    (mainpc \notin {"start", "args_ok", "exit1"} /\ download_links = <<>>) =>
        /\ mainpc = "done"
        /\ session = "none"
        /\ Tasks = {}
        /\ permits = N
        /\ requests = 0
        /\ files = InitFiles /\ dirs = InitDirs
        /\ summary = <<>>

\* C7 witness: main was called with a filename, found no links and is done
EmptyBatchIsInertWitness ==
    /\ argc = 2
    /\ mainpc = "done"
    /\ download_links = <<>>

\* the success range of HTTP statuses
SuccessRange == 200..299

\* C8: the step in which a transfer sees a status outside the success range
\* returns a Failure and changes neither the directories nor any file
FailureStatusLeavesFiles ==
    [][\A t \in Tasks :
        (pc[t] = "requesting" /\ status'[t] \notin SuccessRange \cup {0}) =>
            /\ pc'[t] = "HttpStatus"
            /\ files' = files
            /\ dirs' = dirs]_vars

\* C8 witness: the unit of a link whose file was there before the run got a
\* 404 and the file is as it was; the unit of a link in a directory that does
\* not exist got a 404 and neither the directory nor the file was made
FailureStatusLeavesFilesWitness ==
    /\ Len(download_links) >= 3
    /\ pc[1] = "HttpStatus" /\ status[1] = 404
    /\ local_filename[1] \in DOMAIN files /\ files[local_filename[1]] = OldContent
    /\ pc[3] = "HttpStatus" /\ status[3] = 404
    /\ Dirname(local_filename[3]) \notin dirs
    /\ local_filename[3] \notin DOMAIN files

\* C9 as stated: a transfer returns the status Failure exactly when the
\* status is outside the success range 200-299
StatusFailureIffOutsideRange ==
    \A t \in Tasks : pc[t] = "HttpStatus" => status[t] \notin SuccessRange

\* C9 amended: a transfer returns the status Failure exactly when the status
\* is not 200; only on 200 does it make the directories and open the file
\* empty, and from there it ends in Success with the derived path unless an
\* error (or cancellation) ends it
StatusFailureIffNot200 ==
    [][\A t \in Tasks :
        /\ (pc[t] = "requesting" /\ pc'[t] # "requesting") =>
            /\ pc'[t] = "HttpStatus" <=> status'[t] \notin {0, 200}
            /\ pc'[t] = "streaming" =>
                /\ status'[t] = 200
                /\ Ancestors(Dirname(local_filename[t])) \subseteq dirs'
                /\ files'[local_filename[t]] = <<>>
            /\ pc'[t] \in {"HttpStatus", "streaming", "IoError", "cancelled"}
        /\ (pc[t] = "streaming" /\ pc'[t] # "streaming") =>
            /\ pc'[t] \in {"Success", "IoError", "cancelled"}
            /\ pc'[t] = "Success" =>
                /\ status'[t] = 200
                /\ results'[t] = local_filename[t]]_vars

\* C9 witness: one unit was refused on status 204, another got 200 and
\* returned its derived path
StatusFailureIffNot200Witness ==
    /\ \E t \in Tasks : pc[t] = "HttpStatus" /\ status[t] = 204
    /\ \E t \in Tasks :
        /\ pc[t] = "Success" /\ status[t] = 200
        /\ results[t] = clean_filename(download_links[t]).path

\* C10: when a transfer returns Success the file at its derived path holds
\* exactly the chunks of its body, in the order they arrived
SuccessFileIsBody ==
    [][\A t \in Tasks :
        (pc[t] = "streaming" /\ pc'[t] = "Success") =>
            files'[local_filename[t]] = Body(t, BodyChunks(t))]_vars

\* what is left of C10 in the code: a transfer whose derived path no other
\* task of the batch has derived returns Success with exactly its body in the
\* file, nothing left of the file that was there before
SuccessFileIsBodyWhenAlone ==
    [][\A t \in Tasks :
        (/\ pc[t] = "streaming" /\ pc'[t] = "Success"
         /\ \A u \in Tasks \ {t} : local_filename[u] # local_filename[t]) =>
            files'[local_filename[t]] = Body(t, BodyChunks(t))]_vars

\* C11: an error of the request, of the directory creation, of open or of the
\* streaming ends the transfer in a returned Failure: no step of a transfer
\* that has entered download_file lets an exception leave it, Success is
\* returned only when every chunk of the body was written, a transfer whose
\* directory cannot be made or whose file cannot be opened never starts to
\* stream, an outcome once returned is final, and a GET is issued only by the
\* one step in which a transfer starts (no retry)
IoErrorIsFailure ==
    [][/\ \A t \in Tasks :
            /\ pc[t] \in InFlight => pc'[t] # "raised"
            /\ (pc[t] \in InFlight /\ pc'[t] = "Success") =>
                    pc[t] = "streaming" /\ nread[t] = BodyChunks(t)
            /\ (/\ pc[t] = "requesting"
                /\ \/ MakedirsFails(files, Dirname(local_filename[t]))
                   \/ OpenFails(dirs \cup Ancestors(Dirname(local_filename[t])),
                                local_filename[t])) =>
                    pc'[t] \in {"requesting", "HttpStatus", "IoError", "cancelled"}
            /\ pc[t] \in Returned => pc'[t] = pc[t]
       /\ requests' # requests =>
            /\ requests' = requests + 1
            /\ Cardinality({t \in Tasks : pc[t] = "waiting" /\ pc'[t] = "requesting"}) = 1
            /\ \A t \in Tasks : pc[t] = "requesting" => pc'[t] = "requesting"]_vars

\* C11 witness: a transfer of a two-chunk body, the only one of the batch to
\* open its path, ended in an error after its first chunk: it returned None,
\* the file holds the first chunk only, and one GET was issued for each link
IoErrorIsFailureWitness ==
    /\ mainpc = "done"
    /\ requests = Len(download_links)
    /\ \E t \in Tasks :
        /\ pc[t] = "IoError" /\ results[t] = None
        /\ BodyChunks(t) = 2
        /\ \A u \in Tasks \ {t} :
                local_filename[u] = local_filename[t] => pc[u] = "HttpStatus"
        /\ local_filename[t] \in DOMAIN files
        /\ files[local_filename[t]] = Body(t, 1)

\* the tasks that hold the file at path p open for writing
Writers(p) == {t \in Tasks : pc[t] = "streaming" /\ local_filename[t] = p}

\* C12: in every reachable state no file is open for writing by more than
\* one task, whatever links the batch holds
OneWriterPerFile ==
    \A t \in Tasks : pc[t] = "streaming" => Writers(local_filename[t]) = {t}

(***************************************************************************)
(* clean_filename on its own: it is applied to each URL of a pair of URLs  *)
(* that have the same path and differ in at most one other part.           *)
(***************************************************************************)
InitDerive ==
    /\ argc = 2
    /\ contents = "unread"
    /\ mainpc = "start"
    /\ download_links \in UrlPairs
    /\ session = "none"
    /\ permits = N
    /\ pc = <<"waiting", "waiting">>
    /\ local_filename = <<None, None>>
    /\ status = <<0, 0>>
    /\ nread = <<0, 0>>
    /\ ondisk = <<0, 0>>
    /\ requests = 0
    /\ dirs = InitDirs
    /\ files = InitFiles
    /\ summary = <<>>
    /\ previous = <<>>

\* lines 37-43: clean_filename(download_links[t]) returns the path, or raises
\* the ValueError of urlparse
Derive(t) ==
    /\ pc[t] = "waiting"
    /\ IF clean_filename(download_links[t]).ok
       THEN /\ pc' = [pc EXCEPT ![t] = "derived"]
            /\ local_filename' =
                [local_filename EXCEPT ![t] = clean_filename(download_links[t]).path]
       ELSE /\ pc' = [pc EXCEPT ![t] = "raised"]
            /\ UNCHANGED local_filename
    /\ UNCHANGED <<mainVars, permits, status, nread, ondisk, requests, dirs, files>>

NextDerive == \E t \in Tasks : Derive(t)

SpecDerive == InitDerive /\ [][NextDerive]_vars

\* the position of the first "?" or "#" of a URL, where its query or its
\* fragment starts; 0 when it has neither
QueryStart(url) ==
    LET marks == {i \in 1..Len(url) : url[i] \in {"?", "#"}}
    IN  IF marks = {} THEN 0 ELSE CHOOSE i \in marks : \A j \in marks : i <= j

\* s ends with the text suffix
EndsWith(s, suffix) ==
    /\ Len(s) >= Len(suffix)
    /\ SubSeq(s, Len(s) - Len(suffix) + 1, Len(s)) = suffix

\* C13: the path clean_filename returns for a URL is relative: it does not
\* start with the separator "/", and nothing of the URL from its query or
\* fragment on is left at its end
DerivedPathIsRelative ==
    \A t \in Tasks : pc[t] = "derived" =>
        /\ local_filename[t] = <<>> \/ local_filename[t][1] # "/"
        /\ QueryStart(download_links[t]) # 0 =>
            ~EndsWith(local_filename[t],
                      From(download_links[t], QueryStart(download_links[t])))

\* C14: two URLs with the same path that differ only in scheme, host, query
\* or fragment are given the same path by clean_filename
DerivedPathFromPathOnly ==
    (pc[1] = "derived" /\ pc[2] = "derived") => local_filename[1] = local_filename[2]

\* what is left of C14 in the code: the two URLs are given the same path
\* when their schemes are both in uses_params or both outside it
DerivedPathFromPathAndParams ==
    (/\ pc[1] = "derived" /\ pc[2] = "derived"
     /\ SchemeOf(download_links[1]) \in UsesParams
            <=> SchemeOf(download_links[2]) \in UsesParams) =>
        local_filename[1] = local_filename[2]

\* C15: main called with an argument list whose length is not 2 goes
\* nowhere but to exit status 1, and there the page has not been read, no
\* session has been opened, no task made, no request issued, no file or
\* directory written and no summary printed
UsageErrorIsFatal ==
    /\ argc # 2 => mainpc \in {"start", "exit1"}
    /\ mainpc = "exit1" =>
        /\ argc # 2
        /\ contents = "unread"
        /\ download_links = <<>>
        /\ session = "none"
        /\ Tasks = {}
        /\ permits = N
        /\ requests = 0
        /\ files = InitFiles /\ dirs = InitDirs
        /\ summary = <<>>

\* C15 witness: main was called with three arguments and has exited with 1
UsageErrorIsFatalWitness ==
    /\ argc = 3
    /\ mainpc = "exit1"

\* C16: when the page is missing, cannot be read or cannot be parsed, main
\* is done with an empty list of links: nothing was raised, no session was
\* opened, no task made, no request issued, nothing written, nothing counted
ReadFailureIsNotFatal ==
    contents \in {"missing", "error", "unparsable"} =>
        /\ mainpc = "done"
        /\ download_links = <<>>
        /\ session = "none"
        /\ Tasks = {}
        /\ requests = 0
        /\ files = InitFiles /\ dirs = InitDirs
        /\ summary = <<>>

\* C16 witness: the page held links but no parser could read it, and main is
\* done
ReadFailureIsNotFatalWitness ==
    /\ contents = "unparsable"
    /\ mainpc = "done"
    /\ download_links = <<>>

(***************************************************************************)
(* The program run a second time on the same page, every request of both  *)
(* runs answered 200 with the body of its link and no error on the way.    *)
(***************************************************************************)
\* line 110, once more: a run that printed its summary is over and the
\* program is started again, on the filesystem the run left
StartAgain ==
    /\ mainpc = "done"
    /\ summary # <<>>
    /\ previous = <<>>
    /\ previous' = <<[links |-> download_links, results |-> results, files |-> files]>>
    /\ mainpc' = "start"
    /\ contents' = "unread"
    /\ download_links' = <<>>
    /\ session' = "none"
    /\ pc' = <<>>
    /\ local_filename' = <<>>
    /\ status' = <<>>
    /\ nread' = <<>>
    /\ ondisk' = <<>>
    /\ requests' = 0
    /\ summary' = <<>>
    /\ UNCHANGED <<argc, permits, dirs, files>>

\* line 85 when the page is the one the earlier run read
MainGetLinksAgain ==
    /\ MainGetLinks
    /\ previous = <<>> \/ download_links' = previous[1].links

\* lines 49-59 when the server answers 200 and the system refuses nothing
TaskResponseOk(t) == TaskAnswer(t, 200, FALSE)

NextRerun ==
    \/ MainCheckArgs
    \/ MainGetLinksAgain
    \/ MainSummary
    \/ MainGatherRaises
    \/ MainRaises
    \/ StartAgain
    \/ \E t \in Tasks : TaskStart(t)
    \/ \E t \in Tasks : TaskResponseOk(t)
    \/ \E t \in Tasks : TaskChunk(t)
    \/ \E t \in Tasks : TaskEof(t)
    \/ \E t \in Tasks : TaskCancelled(t)

SpecRerun == Init /\ [][NextRerun]_vars

\* C17: when the second run of a batch has printed its summary, it has
\* returned what the first run returned (the same successes, no new
\* failure) and every file holds what it held after the first run
RerunIsIdempotent ==
    (previous # <<>> /\ mainpc = "done" /\ summary # <<>>) =>
        /\ results = previous[1].results
        /\ files = previous[1].files

\* what is left of C17 in the code: the second run returns what the first
\* returned, and the file of a link whose derived path no other link of the
\* batch has holds the link's body after either run
RerunIsIdempotentWhenAlone ==
    (previous # <<>> /\ mainpc = "done" /\ summary # <<>>) =>
        /\ results = previous[1].results
        /\ \A t \in Tasks :
            (\A u \in Tasks \ {t} : local_filename[u] # local_filename[t]) =>
                /\ files[local_filename[t]] = Body(t, BodyChunks(t))
                /\ previous[1].files[local_filename[t]] = Body(t, BodyChunks(t))

\* the tasks that have no outcome yet
Pending == Waiting \cup Active

\* C18: once main has returned or raised, every task has its outcome, and
\* no task is left to use the session once the session is closed
TasksJoinedBeforeMainLeaves ==
    /\ mainpc \in {"done", "raised"} => Pending = {}
    /\ session = "closed" => Pending = {}

\* what is left of C18 in the code: when main returns, every task has
\* returned and the session was closed after the last of them
TasksJoinedWhenMainReturns ==
    mainpc = "done" => (Pending = {} /\ \A t \in Tasks : pc[t] \in Returned)

(***************************************************************************)
(* Network calls that never return.  The session of line 90 is made with   *)
(* the defaults of aiohttp, whose ClientTimeout(total=300) covers the      *)
(* request and the reading of the body: when it expires the pending call   *)
(* raises asyncio.TimeoutError inside download_file.  The calls that do     *)
(* return are answered 200.                                                *)
(***************************************************************************)
\* lines 49 and 68: the call task t is waiting in is one that never returns
TaskHangs(t) ==
    /\ Running
    /\ pc[t] \in {"requesting", "streaming"}
    /\ pc' = [pc EXCEPT ![t] = IF pc[t] = "requesting" THEN "hung_get" ELSE "hung_read"]
    /\ UNCHANGED <<mainVars, permits, local_filename, status, nread, ondisk,
                   requests, dirs, files>>

\* lines 74-76: the total timeout of the session ends the call with
\* asyncio.TimeoutError, an Exception: the file, if open, is closed, None is
\* returned and the permit given back
TaskTimeout(t) ==
    /\ Running
    /\ pc[t] \in Hung
    /\ Finish(t, ExceptionOutcome, 0)
    /\ files' = Closed(files, t)
    /\ UNCHANGED <<mainVars, local_filename, requests, dirs>>

NextHung ==
    \/ MainCheckArgs
    \/ MainGetLinks
    \/ MainSummary
    \/ MainGatherRaises
    \/ MainRaises
    \/ \E t \in Tasks : TaskStart(t)
    \/ \E t \in Tasks : TaskResponseOk(t)
    \/ \E t \in Tasks : TaskChunk(t)
    \/ \E t \in Tasks : TaskEof(t)
    \/ \E t \in Tasks : TaskHangs(t)
    \/ \E t \in Tasks : TaskTimeout(t)
    \/ \E t \in Tasks : TaskCancelled(t)

SpecHung == Init /\ [][NextHung]_vars

HungTasks == {t \in Tasks : pc[t] \in Hung}

TaskProgress(t) ==
    \/ TaskRequestError(t)
    \/ TaskResponseOk(t)
    \/ TaskChunk(t)
    \/ TaskEof(t)

NextFair ==
    \/ MainCheckArgs
    \/ MainGetLinks
    \/ MainSummary
    \/ MainGatherRaises
    \/ MainRaises
    \/ \E t \in Tasks : TaskStart(t)
    \/ \E t \in Tasks : TaskRequestError(t)
    \/ \E t \in Tasks : TaskResponseOk(t)
    \/ \E t \in Tasks : TaskChunk(t)
    \/ \E t \in Tasks : TaskEof(t)
    \/ \E t \in Tasks : TaskCancelled(t)

MainFairness ==
    /\ WF_vars(MainCheckArgs)
    /\ WF_vars(MainGetLinks)
    /\ WF_vars(MainSummary)
    /\ WF_vars(MainGatherRaises)
    /\ WF_vars(MainRaises)

TaskFairness ==
    \A t \in 1..MaxLinks :
        /\ WF_vars(t \in Tasks /\ TaskStart(t))
        /\ WF_vars(t \in Tasks /\ TaskProgress(t))
        /\ WF_vars(t \in Tasks /\ TaskCancelled(t))

SpecFair == Init /\ [][NextFair]_vars /\ MainFairness /\ TaskFairness

\* every transfer ends with success or failure: none by an exception or a
\* cancellation
EndsInSuccessOrFailure == \A t \in Tasks : pc[t] \notin {"raised", "cancelled"}

\* C20: under fair scheduling, in a run where every transfer ends with
\* success or failure, a batch that has been scheduled gets to the point
\* where no link is waiting for a permit, every transfer has returned and
\* the summary is printed, whatever the size of the batch
BatchTerminates ==
    []EndsInSuccessOrFailure =>
        (mainpc = "gathering" ~>
            (/\ Waiting = {}
             /\ \A t \in Tasks : pc[t] \in Returned
             /\ mainpc = "done"
             /\ Len(summary) = 1))

\* C20 witness: a batch larger than N has ended with its summary, every
\* transfer having returned
BatchTerminatesWitness ==
    /\ Len(download_links) = MaxLinks
    /\ MaxLinks > N
    /\ mainpc = "done"
    /\ summary = <<[downloaded |-> Cardinality(Succeeded), total |-> MaxLinks]>>
    /\ \A t \in Tasks : pc[t] \in Returned

====
